---- MODULE Spec2Model ----
(***************************************************************************)
(* Model of compilation/compile_pages.py: the static-site compiler that    *)
(* turns the restaurants data source into per-item pages, an index page    *)
(* and a homepage.                                                         *)
(*                                                                         *)
(* Parsed JSON values are tagged records [t, v]:                           *)
(*   null, bool, num, str (a sequence of one-character strings), list (a   *)
(*   sequence of values), dict (a function from field names to values),    *)
(*   datetime (the result of datetime.fromisoformat).                      *)
(* Text is kept as character sequences so that strip(), lower(),           *)
(* startswith(), concatenation and ISO-8601 parsing are computed.          *)
(* The template engine is a black box: a rendered page is the record of    *)
(* the inputs handed to the template.                                      *)
(***************************************************************************)
EXTENDS Integers, Sequences, FiniteSets, TLC

VARIABLES
    env,                 \* the files and settings the run reads (never written)
    pc,                  \* position in main()
    data,                \* parsed restaurants source, as (key, item) pairs in order
    reviews_map,         \* parsed reviews source
    skeleton,            \* TRUE when the skeleton template was loaded (else None)
    skeleton_restaurant, \* TRUE when the restaurant template was loaded (else None)
    idx,                 \* number of items the per-item loop has finished
    cards,               \* the cards collected for the index
    dirs,                \* directories created by the run
    out                  \* the files written, in order: path and template inputs

vars == <<env, pc, data, reviews_map, skeleton, skeleton_restaurant, idx, cards, dirs, out>>

----------------------------------------------------------------------------
(* Values *)

Null == [t |-> "null", v |-> 0]

Str(s) == [t |-> "str", v |-> s]

Num(n) == [t |-> "num", v |-> n]

Bool(b) == [t |-> "bool", v |-> b]

List(l) == [t |-> "list", v |-> l]

Dict(f) == [t |-> "dict", v |-> f]

Datetime(r) == [t |-> "datetime", v |-> r]

EmptyDict == Dict([k \in {} |-> Null])

EmptyStr == Str(<<>>)

(* Python truthiness of a value (bool(x)). *)
Truthy(x) ==
    CASE x.t = "null" -> FALSE
      [] x.t = "bool" -> x.v
      [] x.t = "num" -> x.v # 0
      [] x.t = "str" -> Len(x.v) > 0
      [] x.t = "list" -> Len(x.v) > 0
      [] x.t = "dict" -> DOMAIN x.v # {}
      [] OTHER -> TRUE

(* a or b *)
PyOr(a, b) == IF Truthy(a) THEN a ELSE b

(* isinstance(x, str), isinstance(x, list), isinstance(x, dict) *)
IsStr(x) == x.t = "str"

IsList(x) == x.t = "list"

IsDict(x) == x.t = "dict"

(* k in d *)
HasKey(d, k) == k \in DOMAIN d.v

(* d.get(k, default) *)
GetOr(d, k, default) == IF HasKey(d, k) THEN d.v[k] ELSE default

(* d.get(k) *)
Get(d, k) == GetOr(d, k, Null)

(* d[k] = x *)
Put(d, k, x) ==
    Dict([kk \in (DOMAIN d.v) \cup {k} |-> IF kk = k THEN x ELSE d.v[kk]])

----------------------------------------------------------------------------
(* Text *)

Whitespace == {" ", "\t", "\n"}

UpperToLower ==
    [A |-> "a", B |-> "b", C |-> "c", D |-> "d", E |-> "e", F |-> "f", G |-> "g",
     H |-> "h", I |-> "i", J |-> "j", K |-> "k", L |-> "l", M |-> "m", N |-> "n",
     O |-> "o", P |-> "p", Q |-> "q", R |-> "r", S |-> "s", T |-> "t", U |-> "u",
     V |-> "v", W |-> "w", X |-> "x", Y |-> "y", Z |-> "z"]

(* str.lower() *)
Lower(s) ==
    [n \in 1..Len(s) |-> IF s[n] \in DOMAIN UpperToLower THEN UpperToLower[s[n]] ELSE s[n]]

RECURSIVE LStrip(_)
LStrip(s) ==
    IF Len(s) > 0 /\ Head(s) \in Whitespace THEN LStrip(Tail(s)) ELSE s

RECURSIVE RStrip(_)
RStrip(s) ==
    IF Len(s) > 0 /\ s[Len(s)] \in Whitespace
    THEN RStrip(SubSeq(s, 1, Len(s) - 1))
    ELSE s

(* str.strip() *)
Strip(s) == RStrip(LStrip(s))

(* str.startswith(p) *)
StartsWith(s, p) == Len(s) >= Len(p) /\ SubSeq(s, 1, Len(p)) = p

s_http == <<"h","t","t","p">>

s_slashes == <<"/","/">>

(* x.startswith("http") or x.startswith("//") *)
LooksRemote(s) == StartsWith(s, s_http) \/ StartsWith(s, s_slashes)

----------------------------------------------------------------------------
(* Hours of operation (main, lines 151-199) *)

days == <<"monday", "tuesday", "wednesday", "thursday", "friday", "saturday", "sunday">>

DaySet == {days[n] : n \in 1..Len(days)}

Weekdays == {"monday", "tuesday", "wednesday", "thursday", "friday"}

Weekend == {"saturday", "sunday"}

Open247 == <<"O","p","e","n"," ","2","4","/","7">>

AlwaysOpen ==
    { <<"2","4","/","7">>,
      <<"2","4","-","7">>,
      <<"2","4","7">>,
      <<"2","4","h">>,
      <<"2","4"," ","h","o","u","r","s">>,
      <<"o","p","e","n"," ","2","4","/","7">>,
      <<"o","p","e","n"," ","2","4"," ","h","o","u","r","s">>,
      <<"a","l","w","a","y","s">>,
      <<"a","l","l"," ","d","a","y">>,
      <<"1","2",":","0","0","a","m","-","1","1",":","5","9","p","m">>,
      <<"1","2",":","0","0"," ","a","m"," ","-"," ","1","1",":","5","9"," ","p","m">>,
      <<"1","2",":","0","0","a","m"," ","-"," ","1","1",":","5","9","p","m">> }

(* _normalize_interval without the strip() and lower() of line 177 *)
_normalize_interval_exact(s) ==
    IF ~IsStr(s) THEN s
    ELSE IF s.v \in AlwaysOpen THEN Str(Open247)
    ELSE s

(* _normalize_interval(s) *)
_normalize_interval(s) ==
    IF ~IsStr(s) THEN s
    ELSE IF Lower(Strip(s.v)) \in AlwaysOpen THEN Str(Open247)
    ELSE s

(* SelectDay with `d in raw_hours` written as a truthiness test, so that an
   explicit null falls through to the wildcards *)
SelectDay_truthy(raw_hours, d) ==
    IF Truthy(Get(raw_hours, d)) THEN Get(raw_hours, d)
    ELSE IF d \in Weekdays /\ HasKey(raw_hours, "weekdays") THEN Get(raw_hours, "weekdays")
    ELSE IF d \in Weekend /\ HasKey(raw_hours, "weekends") THEN Get(raw_hours, "weekends")
    ELSE IF HasKey(raw_hours, "everyday") THEN Get(raw_hours, "everyday")
    ELSE Get(raw_hours, d)

(* The value picked for day d: explicit key, then weekdays/weekends, then
   everyday, then raw_hours.get(d). *)
SelectDay(raw_hours, d) ==
    IF HasKey(raw_hours, d) THEN Get(raw_hours, d)
    ELSE IF d \in Weekdays /\ HasKey(raw_hours, "weekdays") THEN Get(raw_hours, "weekdays")
    ELSE IF d \in Weekend /\ HasKey(raw_hours, "weekends") THEN Get(raw_hours, "weekends")
    ELSE IF HasKey(raw_hours, "everyday") THEN Get(raw_hours, "everyday")
    ELSE Get(raw_hours, d)

(* [f(x) for x in l if x is not None] *)
RECURSIVE NormalizeEntries(_)
NormalizeEntries(l) ==
    IF l = <<>> THEN <<>>
    ELSE IF Head(l) = Null THEN NormalizeEntries(Tail(l))
    ELSE <<_normalize_interval(Head(l))>> \o NormalizeEntries(Tail(l))

(* effective[d] for the selected value val *)
EffectiveDay(val) ==
    IF IsList(val) THEN
        LET normalized == NormalizeEntries(val.v)
        IN  IF \E n \in 1..Len(normalized) : normalized[n] = Str(Open247)
            THEN Str(Open247)
            ELSE List(normalized)
    ELSE IF IsStr(val) /\ Truthy(val) THEN _normalize_interval(val)
    ELSE val

(* The item after the hours block: item['hours'] is replaced only when
   raw_hours is a dict. *)
NormalizeHours(item) ==
    LET raw_hours == PyOr(Get(item, "hours"), EmptyDict)
    IN  IF IsDict(raw_hours)
        THEN Put(item, "hours", Dict([d \in DaySet |-> EffectiveDay(SelectDay(raw_hours, d))]))
        ELSE item

----------------------------------------------------------------------------
(* Images (choose_image, _svg_placeholder, build_banner_html, logo) *)

(* An exception leaving the code that was evaluated. *)
Raise(e) == [t |-> "raise", v |-> e]

Raised(x) == x.t = "raise"

(* Path(p).exists() for a local media path *)
PathExists(p) == p \in env.media

(* choose_image with the precedence reversed: the remote value first *)
choose_image_remote_first(item, local_key, remote_key) ==
    IF Truthy(Get(item, remote_key)) THEN Get(item, remote_key)
    ELSE PyOr(Get(item, local_key), EmptyStr)

choose_image(item, local_key, remote_key) ==
    LET local == Get(item, local_key)
        remote == Get(item, remote_key)
    IN  IF Truthy(local) THEN local ELSE PyOr(remote, EmptyStr)

(* The data URI of the generated SVG; its text is the caption. It does not
   start with "http" or "//". *)
_svg_placeholder(width, height, text) ==
    [t |-> "datauri", v |-> [width |-> width, height |-> height, text |-> text]]

s_no_banner == <<"N","o"," ","b","a","n","n","e","r"," ","a","v","a","i","l","a","b","l","e">>

s_no_logo == <<"N","o"," ","l","o","g","o">>

(* <div class="banner"><img src="{src}" alt="{name} banner" .../></div> *)
BannerMarkup(src, item) ==
    [t |-> "html", v |-> [src |-> src, alt |-> GetOr(item, "name", EmptyStr)]]

build_banner_html(item, media_prefix, placeholder_if_missing) ==
    LET banner == choose_image(item, "local_banner_path", "remote_banner_url")
        missing == IF ~placeholder_if_missing THEN EmptyStr
                   ELSE BannerMarkup(_svg_placeholder(1200, 300, s_no_banner), item)
    IN  IF ~Truthy(banner) THEN missing
        ELSE IF ~IsStr(banner) THEN Raise("AttributeError")
        ELSE IF ~LooksRemote(banner.v)
             THEN IF ~PathExists(banner.v) THEN missing
                  ELSE BannerMarkup(Str(media_prefix \o banner.v), item)
        ELSE BannerMarkup(banner, item)

(* ItemLogo with the existence test inverted: a local logo that exists is cleared *)
ItemLogo_inverted(item) ==
    LET logo_url == PyOr(choose_image(item, "local_logo_path", "remote_logo_url"), EmptyStr)
    IN  IF ~Truthy(logo_url) THEN logo_url
        ELSE IF ~IsStr(logo_url) THEN Raise("AttributeError")
        ELSE IF ~LooksRemote(logo_url.v) /\ PathExists(logo_url.v) THEN EmptyStr
        ELSE logo_url

(* logo_url of an item page (lines 208-212) *)
ItemLogo(item) ==
    LET logo_url == PyOr(choose_image(item, "local_logo_path", "remote_logo_url"), EmptyStr)
    IN  IF ~Truthy(logo_url) THEN logo_url
        ELSE IF ~IsStr(logo_url) THEN Raise("AttributeError")
        ELSE IF ~LooksRemote(logo_url.v) /\ ~PathExists(logo_url.v) THEN EmptyStr
        ELSE logo_url

----------------------------------------------------------------------------
(* Paths: a path is a sequence of components, each a character sequence *)

RECURSIVE SplitOn(_, _, _)
(* s.split(sep) for a one-character sep; cur is the segment being read *)
SplitOn(s, sep, cur) ==
    IF s = <<>> THEN <<cur>>
    ELSE IF Head(s) = sep THEN <<cur>> \o SplitOn(Tail(s), sep, <<>>)
    ELSE SplitOn(Tail(s), sep, Append(cur, Head(s)))

s_dot == <<".">>

s_dotdot == <<".",".">>

AbsRoot == <<"/">>

(* The components of a path string: empty and "." segments are dropped *)
PathParts(s) ==
    SelectSeq(SplitOn(s, "/", <<>>), LAMBDA c : c # <<>> /\ c # s_dot)

(* base / s : an absolute right operand replaces the base *)
PathJoin(base, s) ==
    IF StartsWith(s, AbsRoot) THEN <<AbsRoot>> \o PathParts(s) ELSE base \o PathParts(s)

Parent(p) == IF Len(p) > 0 THEN SubSeq(p, 1, Len(p) - 1) ELSE p

(* The working directory of the run *)
Cwd == <<AbsRoot, <<"r","e","p","o">>>>

RECURSIVE Collapse(_, _)
(* os.path.normpath of an absolute path: ".." removes the component before it *)
Collapse(done, rest) ==
    IF rest = <<>> THEN done
    ELSE IF Head(rest) = s_dotdot
         THEN Collapse(IF Len(done) > 1 THEN SubSeq(done, 1, Len(done) - 1) ELSE done, Tail(rest))
    ELSE Collapse(Append(done, Head(rest)), Tail(rest))

(* os.path.abspath *)
AbsPath(p) ==
    IF Len(p) > 0 /\ p[1] = AbsRoot THEN Collapse(<<AbsRoot>>, Tail(p))
    ELSE Collapse(<<>>, Cwd \o p)

RECURSIVE CommonLen(_, _)
CommonLen(a, b) ==
    IF a # <<>> /\ b # <<>> /\ Head(a) = Head(b) THEN 1 + CommonLen(Tail(a), Tail(b)) ELSE 0

RECURSIVE JoinWith(_, _)
(* sep.join(parts) *)
JoinWith(parts, sep) ==
    IF parts = <<>> THEN <<>>
    ELSE IF Len(parts) = 1 THEN Head(parts)
    ELSE Head(parts) \o sep \o JoinWith(Tail(parts), sep)

(* os.path.relpath(path, start) *)
relpath(path, start) ==
    LET a == AbsPath(path)
        b == AbsPath(start)
        c == CommonLen(a, b)
        rel == [n \in 1..(Len(b) - c) |-> s_dotdot] \o SubSeq(a, c + 1, Len(a))
    IN  IF rel = <<>> THEN s_dot ELSE JoinWith(rel, <<"/">>)

(* (rel + "/") if rel != "." else "" *)
PrefixOf(rel) == IF rel # s_dot THEN rel \o <<"/">> ELSE <<>>

outdir == env.out

rest_out == outdir \o << <<"r","e","s","t","a","u","r","a","n","t","s">> >>

(* mkdir(parents=True): the directory and every ancestor *)
MkdirParents(p) == {SubSeq(AbsPath(p), 1, n) : n \in 1..Len(AbsPath(p))}

(* write_text needs the parent directory to exist *)
CanWrite(file, ds) ==
    LET par == AbsPath(Parent(file))
    IN  par \in ds \/ (Len(par) <= Len(Cwd) /\ par = SubSeq(Cwd, 1, Len(par)))

----------------------------------------------------------------------------
(* Dates: datetime.fromisoformat, datetime.timestamp, comparison *)

DigitVal ==
    ("0" :> 0) @@ ("1" :> 1) @@ ("2" :> 2) @@ ("3" :> 3) @@ ("4" :> 4) @@
    ("5" :> 5) @@ ("6" :> 6) @@ ("7" :> 7) @@ ("8" :> 8) @@ ("9" :> 9)

AllDigits(s) == \A n \in 1..Len(s) : s[n] \in DOMAIN DigitVal

RECURSIVE ParseInt(_)
ParseInt(s) ==
    IF s = <<>> THEN 0 ELSE 10 * ParseInt(SubSeq(s, 1, Len(s) - 1)) + DigitVal[s[Len(s)]]

IsLeap(y) == (y % 4 = 0 /\ y % 100 # 0) \/ y % 400 = 0

DaysInMonth(y, m) ==
    IF m = 2 THEN (IF IsLeap(y) THEN 29 ELSE 28)
    ELSE IF m \in {4, 6, 9, 11} THEN 30 ELSE 31

(* YYYY-MM-DD *)
DateShape(s) ==
    /\ Len(s) = 10
    /\ AllDigits(SubSeq(s, 1, 4)) /\ s[5] = "-"
    /\ AllDigits(SubSeq(s, 6, 7)) /\ s[8] = "-"
    /\ AllDigits(SubSeq(s, 9, 10))

(* HH:MM or HH:MM:SS *)
TimeShape(s) ==
    /\ Len(s) \in {5, 8}
    /\ AllDigits(SubSeq(s, 1, 2)) /\ s[3] = ":" /\ AllDigits(SubSeq(s, 4, 5))
    /\ (Len(s) = 8 => s[6] = ":" /\ AllDigits(SubSeq(s, 7, 8)))

(* +HH:MM or -HH:MM *)
OffsetShape(s) ==
    /\ Len(s) = 6
    /\ s[1] \in {"+", "-"}
    /\ AllDigits(SubSeq(s, 2, 3)) /\ s[4] = ":" /\ AllDigits(SubSeq(s, 5, 6))

(* The index of the UTC offset's sign in a time string, 0 when there is none *)
OffsetAt(s) ==
    IF \E n \in 1..Len(s) : s[n] \in {"+", "-"}
    THEN CHOOSE n \in 1..Len(s) : s[n] \in {"+", "-"} /\ \A k \in 1..(n - 1) : s[k] \notin {"+", "-"}
    ELSE 0

(* The minutes east of UTC written as +HH:MM or -HH:MM *)
OffsetMinutes(opart) ==
    (IF opart[1] = "-" THEN -1 ELSE 1) *
    (60 * ParseInt(SubSeq(opart, 2, 3)) + ParseInt(SubSeq(opart, 5, 6)))

(* The datetime with these fields, or ValueError when a field is out of range *)
MakeDatetime(year, month, day, hour, minute, second, aware, omin) ==
    IF year < 1 \/ month \notin 1..12 THEN Raise("ValueError")
    ELSE IF day \notin 1..DaysInMonth(year, month) THEN Raise("ValueError")
    ELSE IF hour > 23 \/ minute > 59 \/ second > 59 THEN Raise("ValueError")
    ELSE IF aware /\ (omin >= 1440 \/ omin <= -1440) THEN Raise("ValueError")
    ELSE Datetime([year |-> year, month |-> month, day |-> day, hour |-> hour,
                   minute |-> minute, second |-> second, aware |-> aware, offset |-> omin])

(* The date part with the time part tpart (empty: midnight) and the offset
   part opart (empty: naive) *)
IsoParts(date, tpart, opart) ==
    IF tpart # <<>> /\ ~TimeShape(tpart) THEN Raise("ValueError")
    ELSE IF opart # <<>> /\ ~OffsetShape(opart) THEN Raise("ValueError")
    ELSE MakeDatetime(ParseInt(SubSeq(date, 1, 4)), ParseInt(SubSeq(date, 6, 7)),
                      ParseInt(SubSeq(date, 9, 10)),
                      IF tpart # <<>> THEN ParseInt(SubSeq(tpart, 1, 2)) ELSE 0,
                      IF tpart # <<>> THEN ParseInt(SubSeq(tpart, 4, 5)) ELSE 0,
                      IF Len(tpart) = 8 THEN ParseInt(SubSeq(tpart, 7, 8)) ELSE 0,
                      opart # <<>>,
                      IF opart # <<>> THEN OffsetMinutes(opart) ELSE 0)

(* The text after the date and its separator, cut at the offset's sign *)
IsoRest(date, rest, at) ==
    IF rest = <<>> \/ at = 1 THEN Raise("ValueError")
    ELSE IF at = 0 THEN IsoParts(date, rest, <<>>)
    ELSE IsoParts(date, SubSeq(rest, 1, at - 1), SubSeq(rest, at, Len(rest)))

(* datetime.fromisoformat(s) for the forms every supported interpreter reads the
   same way: a date, then optionally one separator character and a time, then
   optionally a UTC offset. The result is a datetime or a ValueError. *)
fromisoformat(s) ==
    IF Len(s) < 10 \/ ~DateShape(SubSeq(s, 1, 10)) THEN Raise("ValueError")
    ELSE IF Len(s) = 10 THEN IsoParts(s, <<>>, <<>>)
    ELSE IsoRest(SubSeq(s, 1, 10), SubSeq(s, 12, Len(s)), OffsetAt(SubSeq(s, 12, Len(s))))

(* Days from 1970-01-01 to y-m-d in the proleptic Gregorian calendar *)
DaysFromCivil(y, m, d) ==
    LET yy == IF m <= 2 THEN y - 1 ELSE y
        era == yy \div 400
        yoe == yy - era * 400
        mp == IF m > 2 THEN m - 3 ELSE m + 9
        doy == (153 * mp + 2) \div 5 + d - 1
        doe == yoe * 365 + yoe \div 4 - yoe \div 100 + doy
    IN  era * 146097 + doe - 719468

(* Seconds from the epoch to the wall-clock fields read as UTC *)
WallSeconds(dt) ==
    DaysFromCivil(dt.year, dt.month, dt.day) * 86400 + dt.hour * 3600 + dt.minute * 60 + dt.second

(* dt.timestamp() in whole seconds: an aware datetime uses its own offset, a
   naive one the local time zone of the run *)
timestamp(dt) == WallSeconds(dt) - 60 * (IF dt.aware THEN dt.offset ELSE env.tz)

(* The integer 1000 * n, kept as n: Python's integers are unbounded and the
   product does not fit the integers of the checker *)
Thousands(n) == [t |-> "thousands", v |-> n]

(* int(dt.timestamp() * 1000) *)
epoch_ms(dt) == Thousands(timestamp(dt))

(* datetime.min *)
datetime_min ==
    Datetime([year |-> 1, month |-> 1, day |-> 1, hour |-> 0, minute |-> 0, second |-> 0,
              aware |-> FALSE, offset |-> 0])

(* a < b raises TypeError unless both are naive or both are aware *)
Comparable(a, b) == a.t = "datetime" /\ b.t = "datetime" /\ a.v.aware = b.v.aware

(* a >= b for two datetimes that can be compared: by calendar day, then by
   the second of the day less the UTC offset (days apart by three or more
   decide alone, which keeps the arithmetic small) *)
NotBefore(a, b) ==
    LET Decide(dd, rem) ==
            IF dd >= 3 THEN TRUE ELSE IF dd <= -3 THEN FALSE ELSE dd * 86400 + rem >= 0
    IN  Decide(DaysFromCivil(a.v.year, a.v.month, a.v.day) - DaysFromCivil(b.v.year, b.v.month, b.v.day),
               (a.v.hour * 3600 + a.v.minute * 60 + a.v.second - 60 * a.v.offset)
               - (b.v.hour * 3600 + b.v.minute * 60 + b.v.second - 60 * b.v.offset))

(* _attach_epoch(field): the item with <field>_epoch_ms and <field>_parsed
   added when the field is a non-empty str that parses, unchanged otherwise *)
_attach_epoch(item, field, f_epoch_ms, f_parsed) ==
    LET Attach(dt) ==
            IF Raised(dt) THEN item
            ELSE Put(Put(item, f_epoch_ms, epoch_ms(dt.v)), f_parsed, dt)
    IN  IF IsStr(Get(item, field)) /\ Truthy(Get(item, field))
        THEN Attach(fromisoformat(Get(item, field).v))
        ELSE item

----------------------------------------------------------------------------
(* Review attachment (main, lines 243-264) *)

(* The review r after the date loop (lines 250-258) *)
ParseReviewDate(r) ==
    LET Attach(dt) ==
            IF Raised(dt)
            THEN Put(Put(r, "date_parsed", Null), "date_epoch_ms", Null)
            ELSE Put(Put(r, "date_parsed", dt), "date_epoch_ms", epoch_ms(dt.v))
    IN  IF IsStr(Get(r, "date")) /\ Truthy(Get(r, "date"))
        THEN Attach(fromisoformat(Get(r, "date").v))
        ELSE r

(* key=lambda x: x.get("date_parsed") or datetime.min *)
SortKey(x) == PyOr(Get(x, "date_parsed"), datetime_min)

RECURSIVE InsertDesc(_, _)
(* x placed after every element whose key is not smaller than its own *)
InsertDesc(sorted, x) ==
    IF sorted = <<>> THEN <<x>>
    ELSE IF NotBefore(SortKey(Head(sorted)), SortKey(x))
         THEN <<Head(sorted)>> \o InsertDesc(Tail(sorted), x)
    ELSE <<x>> \o sorted

RECURSIVE SortDesc(_)
(* sorted(l, key=SortKey, reverse=True): stable, newest first *)
SortDesc(l) ==
    IF l = <<>> THEN <<>> ELSE InsertDesc(SortDesc(SubSeq(l, 1, Len(l) - 1)), l[Len(l)])

(* sorted() compares the keys unless there are fewer than two; a comparison of
   a naive with an aware datetime raises TypeError *)
SortRaises(l) ==
    \E a, b \in 1..Len(l) : ~Comparable(SortKey(l[a]), SortKey(l[b]))

(* d.get(k) for a key that is a value: only a str can equal a JSON key, and a
   list or dict key is unhashable *)
Lookup(d, k) ==
    IF ~IsDict(d) THEN Raise("AttributeError")
    ELSE IF k.t \in {"list", "dict"} THEN Raise("TypeError")
    ELSE IF IsStr(k) /\ HasKey(d, k.v) THEN d.v[k.v]
    ELSE Null

(* reviews_map.get(slug) or reviews_map.get(key) or [] *)
RawReviews(rmap, slug, key) ==
    LET Pick(by_slug, by_key) ==
            IF Raised(by_slug) \/ Truthy(by_slug) THEN by_slug
            ELSE IF Raised(by_key) THEN by_key
            ELSE PyOr(by_key, List(<<>>))
    IN  Pick(Lookup(rmap, slug), Lookup(rmap, key))

(* The reviews of a raw list: r.get raises on an entry that is not a dict, and
   sorted() raises on keys that cannot be compared *)
SortedReviews(raw) ==
    LET Sorted(parsed) == IF SortRaises(parsed) THEN Raise("TypeError") ELSE List(SortDesc(parsed))
    IN  IF \E n \in 1..Len(raw) : ~IsDict(raw[n]) THEN Raise("AttributeError")
        ELSE Sorted([n \in 1..Len(raw) |-> ParseReviewDate(raw[n])])

(* reviews for the item with this slug and source key; every exception in the
   block is caught and leaves reviews = [] *)
AttachReviews(rmap, slug, key) ==
    LET Caught(res) == IF Raised(res) THEN <<>> ELSE res.v
        Attach(raw_reviews) ==
            IF Raised(raw_reviews) THEN raw_reviews
            ELSE IF ~IsList(raw_reviews) THEN List(<<>>)
            ELSE SortedReviews(raw_reviews.v)
    IN  Caught(Attach(RawReviews(rmap, slug, key)))

----------------------------------------------------------------------------
(* Payment methods, tags, derived URLs (main, lines 213-241) *)

DigitChar == <<"0", "1", "2", "3", "4", "5", "6", "7", "8", "9">>

RECURSIVE NatStr(_)
NatStr(n) == IF n < 10 THEN <<DigitChar[n + 1]>> ELSE NatStr(n \div 10) \o <<DigitChar[(n % 10) + 1]>>

(* str(x) of a scalar *)
PyStr(x) ==
    CASE x.t = "str" -> x.v
      [] x.t = "num" -> IF x.v < 0 THEN <<"-">> \o NatStr(-x.v) ELSE NatStr(x.v)
      [] x.t = "bool" -> IF x.v THEN <<"T","r","u","e">> ELSE <<"F","a","l","s","e">>
      [] OTHER -> <<"N","o","n","e">>

NormalizePayment(item) ==
    LET pm == Get(item, "payment_methods")
    IN  IF IsList(pm)
        THEN Put(item, "payment_methods",
                 Dict([k \in {PyStr(pm.v[n]) : n \in 1..Len(pm.v)} |-> Bool(TRUE)]))
        ELSE IF IsDict(pm) THEN item
        ELSE Put(item, "payment_methods", EmptyDict)

(* SplitTags that keeps the empty segments *)
SplitTags_keep_empty(s) ==
    LET parts == SplitOn(s, ",", <<>>)
    IN  [n \in 1..Len(parts) |-> Str(Strip(parts[n]))]

(* [t.strip() for t in tags.split(',') if t.strip()] *)
SplitTags(s) ==
    LET parts == SplitOn(s, ",", <<>>)
        kept == SelectSeq(parts, LAMBDA t : Strip(t) # <<>>)
    IN  [n \in 1..Len(kept) |-> Str(Strip(kept[n]))]

NormalizeTags(item) ==
    LET tags == Get(item, "tags")
    IN  IF IsStr(tags) THEN Put(item, "tags", List(SplitTags(tags.v)))
        ELSE IF IsList(tags) THEN Put(item, "tags", tags)
        ELSE Put(item, "tags", List(<<>>))

s_rit_location ==
    <<"h","t","t","p","s",":","/","/","w","w","w",".","r","i","t",".","e","d","u","/",
      "d","i","n","i","n","g","/","l","o","c","a","t","i","o","n","/">>

s_ondemand ==
    <<"h","t","t","p","s",":","/","/","o","n","d","e","m","a","n","d",".","r","i","t",".",
      "e","d","u","/","?","S","E","=">>

(* OfficialUrl with `website` tried before `website_url` *)
OfficialUrl_website_first(item) ==
    LET first == PyOr(Get(item, "website"), Get(item, "website_url"))
        ws == Get(item, "website_slug")
    IN  IF Truthy(first) THEN first
        ELSE IF ~Truthy(ws) THEN Null
        ELSE IF ~IsStr(ws) THEN Raise("TypeError")
        ELSE Str(s_rit_location \o ws.v)

(* website_url or website or (template + website_slug if website_slug else None);
   str + non-str raises TypeError *)
OfficialUrl(item) ==
    LET first == PyOr(Get(item, "website_url"), Get(item, "website"))
        ws == Get(item, "website_slug")
    IN  IF Truthy(first) THEN first
        ELSE IF ~Truthy(ws) THEN Null
        ELSE IF ~IsStr(ws) THEN Raise("TypeError")
        ELSE Str(s_rit_location \o ws.v)

OrderingUrl(item) ==
    LET ordering_id == Get(item, "online_ordering_id")
    IN  IF ordering_id # Null THEN Str(s_ondemand \o PyStr(ordering_id)) ELSE Null

----------------------------------------------------------------------------
(* One pass of the per-item loop (main, lines 133-279) *)

s_html == <<".","h","t","m","l">>

s_unnamed == <<"U","n","n","a","m","e","d">>

(* slug = item.get("slug") or key *)
SlugOf(key, item) == PyOr(Get(item, "slug"), key)

(* filename = rest_out / f"{slug}.html" *)
ItemFile(slug) == PathJoin(rest_out, PyStr(slug) \o s_html)

(* media_prefix of the page written to file *)
MediaPrefix(file) == PrefixOf(relpath(outdir, Parent(file)))

(* The card appended for the index (lines 273-278) *)
Card(item, slug, logo_url) ==
    [name |-> GetOr(item, "name", Str(s_unnamed)),
     description |-> GetOr(item, "description", EmptyStr),
     slug |-> slug,
     logo |-> PyOr(PyOr(PyOr(logo_url, Get(item, "local_logo_path")),
                        Get(item, "remote_logo_url")), EmptyStr)]

(* The inputs of skeleton_restaurant.render (line 268) *)
ItemPage(item, banner_html, logo_url, media_prefix, reviews, official_url) ==
    [template |-> "restaurant",
     item |-> item,
     page_title |-> Get(item, "name"),
     banner_html |-> banner_html,
     logo_url |-> logo_url,
     extra_content |-> EmptyStr,
     media_prefix |-> Str(media_prefix),
     site_prefix |-> Str(media_prefix),
     ordering_url |-> OrderingUrl(item),
     reviews |-> List(reviews),
     official_url |-> official_url,
     logo_placeholder |-> _svg_placeholder(200, 200, s_no_logo)]

(* Lines 200-279 for the item after the timestamp and hours blocks *)
RenderItem(key, slug, with_hours, filename, rmap, tmpl, ds) ==
    LET Finish(normalized, banner_html, logo_url, official_url) ==
            IF Raised(banner_html) THEN banner_html
            ELSE IF Raised(logo_url) THEN logo_url
            ELSE IF Raised(official_url) THEN official_url
            ELSE IF ~tmpl THEN Raise("AttributeError")
            ELSE IF ~CanWrite(filename, ds) THEN Raise("FileNotFoundError")
            ELSE [t |-> "ok",
                  v |-> [file |-> filename,
                         page |-> ItemPage(normalized, banner_html, logo_url,
                                           MediaPrefix(filename),
                                           AttachReviews(rmap, slug, key), official_url),
                         card |-> Card(normalized, slug, logo_url)]]
    IN  Finish(NormalizeTags(NormalizePayment(with_hours)),
               build_banner_html(with_hours, MediaPrefix(filename), TRUE),
               ItemLogo(with_hours),
               OfficialUrl(with_hours))

(* What one iteration does with (key, item): the exception that leaves the
   loop body, or the page written and the card appended. *)
ProcessItem(key, item, rmap, tmpl, ds) ==
    IF ~IsDict(item) THEN Raise("AttributeError")
    ELSE RenderItem(key, SlugOf(key, item),
                    NormalizeHours(
                        _attach_epoch(
                            _attach_epoch(item, "created_at", "created_at_epoch_ms", "created_at_parsed"),
                            "updated_at", "updated_at_epoch_ms", "updated_at_parsed")),
                    ItemFile(SlugOf(key, item)), rmap, tmpl, ds)

----------------------------------------------------------------------------
(* The index page (main, lines 281-308) and the homepage (lines 310-334) *)

s_index_html == <<"i","n","d","e","x",".","h","t","m","l">>

(* card_html for one card: the image reference (None when the card has no
   logo), and the texts placed in the markup *)
CardHtml(c, cards_media_prefix) ==
    [img |-> IF ~Truthy(c.logo) THEN Null
             ELSE IF LooksRemote(c.logo.v) THEN c.logo
             ELSE Str(cards_media_prefix \o c.logo.v),
     name |-> c.name,
     description |-> c.description,
     href |-> c.slug]

IndexPage(cs) ==
    LET index_media_prefix == PrefixOf(relpath(outdir, rest_out))
    IN  [template |-> "skeleton",
         item |-> Dict([name |-> Str(<<"R","e","s","t","a","u","r","a","n","t","s"," ","I","n","d","e","x">>),
                        description |-> EmptyStr]),
         page_title |-> Str(<<"R","e","s","t","a","u","r","a","n","t","s">>),
         banner_html |-> EmptyStr,
         logo_url |-> EmptyStr,
         extra_content |-> List([n \in 1..Len(cs) |-> CardHtml(cs[n], index_media_prefix)]),
         media_prefix |-> Str(index_media_prefix),
         site_prefix |-> Str(index_media_prefix)]

(* homepage_logo = choose_image(homepage, ...) or "" *)
HomepageLogo(homepage) == PyOr(choose_image(homepage, "local_logo_path", "remote_logo_url"), EmptyStr)

HomepagePage(homepage) ==
    [template |-> "skeleton",
     item |-> homepage,
     page_title |-> PyOr(Get(homepage, "title"), Get(homepage, "name")),
     banner_html |-> build_banner_html(homepage, <<>>, FALSE),
     logo_url |-> HomepageLogo(homepage),
     extra_content |-> GetOr(homepage, "extra_content", EmptyStr),
     media_prefix |-> EmptyStr,
     site_prefix |-> EmptyStr]

----------------------------------------------------------------------------
(* main() *)

(* Lines 70-131: input checks, load, mkdir, reviews, templates, data check.
   json5 reports a malformed document with an exception that the handler for
   json.JSONDecodeError may or may not catch: either way the run ends. *)
Startup ==
    /\ pc = "start"
    /\ IF env.restaurants.state = "missing" \/ ~env.template_exists
       THEN /\ pc' = "exit1"
            /\ UNCHANGED <<data, reviews_map, skeleton, skeleton_restaurant, dirs>>
       ELSE IF env.restaurants.state = "malformed"
       THEN /\ pc' \in {"exit1", "crashed"}
            /\ UNCHANGED <<data, reviews_map, skeleton, skeleton_restaurant, dirs>>
       ELSE /\ data' = env.restaurants.value
            /\ dirs' = MkdirParents(rest_out)
            /\ reviews_map' = IF env.reviews.state = "ok" THEN env.reviews.value ELSE EmptyDict
            /\ skeleton' = env.skeleton_ok
            /\ skeleton_restaurant' = env.restaurant_ok
            /\ pc' = IF ~Truthy(env.restaurants.value) \/ ~IsDict(env.restaurants.value)
                     THEN "exit1" ELSE "loop"
    /\ UNCHANGED <<env, idx, cards, out>>

(* One iteration of `for key, item in data.items()` *)
LoopItem ==
    /\ pc = "loop"
    /\ idx < Len(data.v)
    /\ \E res \in {ProcessItem(Str(data.v[idx + 1][1]), data.v[idx + 1][2],
                               reviews_map, skeleton_restaurant, dirs)} :
           IF Raised(res)
           THEN /\ pc' = "crashed"
                /\ UNCHANGED <<idx, cards, out>>
           ELSE /\ out' = Append(out, [file |-> res.v.file, page |-> res.v.page])
                /\ cards' = Append(cards, res.v.card)
                /\ idx' = idx + 1
                /\ pc' = "loop"
    /\ UNCHANGED <<env, data, reviews_map, skeleton, skeleton_restaurant, dirs>>

(* After the loop: build and write the index *)
WriteIndex ==
    /\ pc = "loop"
    /\ idx = Len(data.v)
    /\ IF ~skeleton \/ \E n \in 1..Len(cards) : Truthy(cards[n].logo) /\ ~IsStr(cards[n].logo)
       THEN /\ pc' = "crashed"
            /\ UNCHANGED out
       ELSE /\ out' = Append(out, [file |-> PathJoin(rest_out, s_index_html), page |-> IndexPage(cards)])
            /\ pc' = "homepage"
    /\ UNCHANGED <<env, data, reviews_map, skeleton, skeleton_restaurant, idx, cards, dirs>>

(* The homepage, if its source exists *)
WriteHomepage ==
    /\ pc = "homepage"
    /\ IF env.homepage.state = "missing"
       THEN /\ pc' = "done"
            /\ UNCHANGED out
       ELSE IF env.homepage.state = "malformed"
       THEN /\ pc' \in {"exit1", "crashed"}
            /\ UNCHANGED out
       ELSE IF ~IsDict(env.homepage.value)
       THEN /\ pc' = "exit1"
            /\ UNCHANGED out
       ELSE IF Raised(build_banner_html(env.homepage.value, <<>>, FALSE))
       THEN /\ pc' = "crashed"
            /\ UNCHANGED out
       ELSE /\ out' = Append(out, [file |-> PathJoin(outdir, s_index_html),
                                   page |-> HomepagePage(env.homepage.value)])
            /\ pc' = "done"
    /\ UNCHANGED <<env, data, reviews_map, skeleton, skeleton_restaurant, idx, cards, dirs>>

Next == Startup \/ LoopItem \/ WriteIndex \/ WriteHomepage

----------------------------------------------------------------------------
(* Inputs *)

MaxIntervals == 2

MaxReviews == 3

MaxItems == 2

(* Marks a field left out of a generated mapping *)
Absent == [t |-> "absent", v |-> 0]

(* The mapping with the fields of c that are not Absent *)
MkDict(c) == Dict([k \in {f \in DOMAIN c : c[f] # Absent} |-> c[k]])

(* All sequences over S of length at most n *)
SeqsUpTo(S, n) == UNION {[1..m -> S] : m \in 0..n}

Missing == [state |-> "missing", value |-> Null]

Malformed == [state |-> "malformed", value |-> Null]

Parsed(x) == [state |-> "ok", value |-> x]

s_media_a == <<"m","e","d","i","a","/","a",".","p","n","g">>

s_media_b == <<"m","e","d","i","a","/","b",".","p","n","g">>

s_media_missing == <<"m","e","d","i","a","/","m","i","s","s","i","n","g",".","p","n","g">>

s_remote_http == <<"h","t","t","p","s",":","/","/","x",".","i","o","/","b",".","p","n","g">>

s_remote_cdn == <<"/","/","c","d","n","/","l",".","p","n","g">>

s_docs == <<"d","o","c","s">>

s_cafe == <<"C","a","f","e">>

k1 == <<"k","1">>

k2 == <<"k","2">>

k3 == <<"k","3">>

k4 == <<"k","4">>

Keys == <<k1, k2, k3, k4>>

(* A run's surroundings: the three sources, the templates, the media files
   on disk, the local UTC offset in minutes and --out *)
EnvOf(restaurants, homepage, reviews, tz) ==
    [restaurants |-> restaurants, homepage |-> homepage, reviews |-> reviews,
     template_exists |-> TRUE, skeleton_ok |-> TRUE, restaurant_ok |-> TRUE,
     media |-> {s_media_a, s_media_b}, tz |-> tz, out |-> <<s_docs>>]

(* The restaurants document holding these items under the keys k1, k2, ... *)
Restaurants(items) == Parsed(Dict([n \in 1..Len(items) |-> <<Keys[n], items[n]>>]))

(* main() has not started *)
AtStart ==
    /\ pc = "start"
    /\ data = Null
    /\ reviews_map = EmptyDict
    /\ skeleton = FALSE
    /\ skeleton_restaurant = FALSE
    /\ idx = 0
    /\ cards = <<>>
    /\ dirs = {}
    /\ out = <<>>

s_9_5 == <<"9","a","m","-","5","p","m">>

s_9_12 == <<"9","a","m","-","1","2","p","m">>

s_24_hours_padded == <<" ","2","4"," ","H","o","u","r","s"," ">>

s_always_upper == <<"A","L","W","A","Y","S">>

s_24_7 == <<"2","4","/","7">>

HourKeys == {"monday", "saturday", "sunday", "weekdays", "weekends", "everyday"}

HourVals == {Null, Str(s_9_5), Str(s_24_hours_padded)}

(* Interval strings: every always-open spelling, spellings that differ in case
   and padding, ordinary intervals, and the empty string *)
IntervalPool ==
    {Str(x) : x \in AlwaysOpen} \cup
    {Str(s_9_12), Str(s_9_5), Str(s_24_hours_padded), Str(s_always_upper), Str(Open247),
     EmptyStr, Null}

(* Raw `hours` values: every shape, wildcard mappings, and interval lists *)
HoursInputs ==
    {Absent, Null, EmptyDict, EmptyStr, Str(s_9_5), List(<<>>), List(<<Str(s_9_5)>>),
     Num(0), Num(5), Bool(TRUE)}
    \cup {MkDict(c) : c \in [HourKeys -> HourVals \cup {Absent}]}
    \cup {Dict([everyday |-> x]) : x \in IntervalPool \cup {Num(5)}}
    \cup {Dict([monday |-> List(l), weekdays |-> Str(s_9_5)]) : l \in SeqsUpTo(IntervalPool, MaxIntervals)}

InitHours ==
    /\ AtStart
    /\ \E h \in HoursInputs :
           env = EnvOf(Restaurants(<<MkDict([name |-> Str(s_cafe), hours |-> h])>>), Missing, Missing, 0)

SpecHours == InitHours /\ [][Next]_vars

(* Values of the logo and banner fields: absent, empty, a local path that
   exists, a local path that does not, two remote forms, and a number *)
ImageVals ==
    {Absent, EmptyStr, Str(s_media_a), Str(s_media_missing), Str(s_remote_http),
     Str(s_remote_cdn), Num(5)}

(* Records with every combination of the four image fields *)
ImageRecords(name) ==
    {MkDict([name |-> name, local_banner_path |-> a, remote_banner_url |-> b,
             local_logo_path |-> c, remote_logo_url |-> d]) :
        a \in ImageVals, b \in ImageVals, c \in ImageVals, d \in ImageVals}

(* An item with a local banner and a local logo that both exist *)
PlainItem ==
    Dict([name |-> Str(s_cafe), local_banner_path |-> Str(s_media_a),
          remote_banner_url |-> Str(s_remote_http), local_logo_path |-> Str(s_media_b)])

(* One item with every combination of image fields and no homepage, or a
   plain item and a homepage with every combination of image fields *)
InitImages ==
    /\ AtStart
    /\ \/ \E item \in ImageRecords(Str(s_cafe)) \cup ImageRecords(Absent) :
              env = EnvOf(Restaurants(<<item>>), Missing, Missing, 0)
       \/ \E homepage \in ImageRecords(Str(s_cafe)) :
              env = EnvOf(Restaurants(<<PlainItem>>), Parsed(homepage), Missing, 0)

SpecImages == InitImages /\ [][Next]_vars

s_oops == <<"o","o","p","s">>

s_slug_cafe == <<"c","a","f","e">>

s_slug_index == <<"i","n","d","e","x">>

(* Item records of every kind: well-formed ones, one that is not a mapping,
   and ones with a field of an unexpected type or a missing file, one whose slug
   is not a file name, and one whose slug is `index` *)
ItemPool ==
    { PlainItem,
      EmptyDict,
      Dict([name |-> Str(s_cafe), local_logo_path |-> Str(s_media_missing)]),
      Dict([name |-> Str(s_cafe), slug |-> Str(s_slug_cafe), tags |-> Str(<<"a",","," ","b">>)]),
      Str(s_oops),
      Dict([name |-> Str(s_cafe), local_banner_path |-> Num(5)]),
      Dict([name |-> Str(s_cafe), website_slug |-> Num(7)]),
      Dict([name |-> Str(s_cafe), slug |-> Str(<<"a","/","b">>)]),
      Dict([name |-> Str(s_cafe), slug |-> Str(s_slug_index)]) }

(* A homepage record *)
PlainHomepage ==
    Dict([title |-> Str(<<"H","o","m","e">>), remote_banner_url |-> Str(s_remote_http)])

HomepageSources == {Missing, Malformed, Parsed(Str(s_oops)), Parsed(PlainHomepage)}

(* Restaurants sources that main() rejects *)
RejectedRestaurants ==
    {Missing, Malformed, Parsed(EmptyDict), Parsed(Null), Parsed(List(<<PlainItem>>))}

(* Every collection of one to MaxItems items with every homepage source; the
   rejected restaurants sources; and runs whose templates are missing or do
   not load *)
Init ==
    /\ AtStart
    /\ \/ \E items \in SeqsUpTo(ItemPool, MaxItems) \ {<<>>}, homepage \in HomepageSources :
              env = EnvOf(Restaurants(items), homepage, Missing, 0)
       \/ \E r \in RejectedRestaurants :
              env = EnvOf(r, Parsed(PlainHomepage), Missing, 0)
       \/ \E f \in {"template_exists", "skeleton_ok", "restaurant_ok"} :
              env = [EnvOf(Restaurants(<<PlainItem>>), Parsed(PlainHomepage), Missing, 0)
                         EXCEPT ![f] = FALSE]

Spec == Init /\ [][Next]_vars

s_d_jan == <<"2","0","2","4","-","0","1","-","0","1">>

s_d_jun == <<"2","0","2","4","-","0","6","-","0","1">>

s_dt_jun == <<"2","0","2","4","-","0","6","-","0","1","T","1","2",":","3","0",":","0","0">>

s_dt_jan_utc ==
    <<"2","0","2","4","-","0","1","-","0","1","T","0","0",":","0","0",":","0","0","+","0","0",":","0","0">>

s_dt_jun_west ==
    <<"2","0","2","4","-","0","6","-","0","1","T","0","9",":","0","0",":","0","0","-","0","5",":","0","0">>

s_not_a_date == <<"n","o","t"," ","a"," ","d","a","t","e">>

(* Values of a review's date: absent, empty, date only, date-time, date-time
   with a UTC offset, text that is no date, and a number *)
DateVals ==
    {Absent, EmptyStr, Str(s_d_jan), Str(s_d_jun), Str(s_dt_jun), Str(s_dt_jan_utc),
     Str(s_dt_jun_west), Str(s_not_a_date), Num(5)}

ReviewPool == {MkDict([rating |-> Num(4), date |-> d]) : d \in DateVals}

(* The item whose reviews are attached: its slug differs from its key k1 *)
ReviewedItem == Dict([name |-> Str(s_cafe), slug |-> Str(s_slug_cafe)])

(* Reviews sources: lists of up to MaxReviews records under the slug; lists
   under the source key, alone or beside an empty list under the slug; a list
   holding an entry that is no record; a value that is no list; a document
   that is no mapping; no file; a file that does not parse *)
ReviewSources ==
    {Parsed(Dict(s_slug_cafe :> List(l))) : l \in SeqsUpTo(ReviewPool, MaxReviews)}
    \cup {Parsed(Dict(k1 :> List(<<r>>))) : r \in ReviewPool}
    \cup {Parsed(Dict((k1 :> List(<<r>>)) @@ (s_slug_cafe :> List(<<>>)))) : r \in ReviewPool}
    \cup {Parsed(Dict(s_slug_cafe :> List(<<r, Str(s_oops)>>))) : r \in ReviewPool}
    \cup {Parsed(Dict(s_slug_cafe :> Str(s_oops))), Parsed(List(<<>>)), Missing, Malformed}

LocalOffsets == {0, -300}

InitReviews ==
    /\ AtStart
    /\ \E r \in ReviewSources, tz \in LocalOffsets :
           env = EnvOf(Restaurants(<<ReviewedItem>>), Missing, r, tz)

SpecReviews == InitReviews /\ [][Next]_vars

MaxMethods == 2

s_site_a == <<"h","t","t","p","s",":","/","/","a",".","i","o">>

s_site_b == <<"h","t","t","p","s",":","/","/","b",".","i","o">>

s_location == <<"g","r","a","c","i","e","s">>

(* Items with every combination of the three website fields: absent, null,
   empty, a string, and a number *)
UrlItems ==
    {MkDict([name |-> Str(s_cafe), website_url |-> a, website |-> b, website_slug |-> c]) :
        a \in {Absent, Null, EmptyStr, Str(s_site_a), Num(5)},
        b \in {Absent, EmptyStr, Str(s_site_b)},
        c \in {Absent, EmptyStr, Str(s_location), Num(7)}}

s_cash == <<"c","a","s","h">>

s_card == <<"c","a","r","d">>

(* payment_methods values: absent, null, a string, a number, mappings, and
   sequences of up to MaxMethods strings, numbers, booleans and nulls *)
PaymentVals ==
    {Absent, Null, Str(s_cash), Num(5), EmptyDict,
     Dict([cash |-> Bool(TRUE), card |-> Bool(FALSE)])}
    \cup {List(l) : l \in SeqsUpTo({Str(s_cash), Str(s_card), Num(5), Bool(TRUE), Null}, MaxMethods)}

s_a_b_c == <<"a",","," ","b"," ",",","c">>

s_tags_gaps == <<" ",","," ","a",",",",","b"," ","c",","," ">>

(* tags values: absent, null, a number, a mapping, sequences, and strings
   with padding, empty segments and no comma at all *)
TagVals ==
    {Absent, Null, Num(5), Dict([a |-> Bool(TRUE)]),
     List(<<>>), List(<<Str(<<"a">>), Str(<<" ","b">>)>>), List(<<Num(5), Str(<<>>)>>),
     EmptyStr, Str(<<",">>), Str(<<" ">>), Str(<<"a">>), Str(s_a_b_c), Str(s_tags_gaps)}

(* One item with every combination of the website fields, or with every
   combination of payment_methods and tags *)
InitFields ==
    /\ AtStart
    /\ \/ \E item \in UrlItems :
              env = EnvOf(Restaurants(<<item>>), Missing, Missing, 0)
       \/ \E pm \in PaymentVals, tags \in TagVals :
              env = EnvOf(Restaurants(<<MkDict([name |-> Str(s_cafe), payment_methods |-> pm,
                                                tags |-> tags])>>), Missing, Missing, 0)

SpecFields == InitFields /\ [][Next]_vars

----------------------------------------------------------------------------
(* Properties. The n-th file written by the loop is the page of the n-th
   item of the restaurants source. *)

(* The n-th item record of the source *)
SourceItem(n) == data.v[n][2]

(* The inputs the item template got for the n-th item *)
PageOf(n) == out[n].page

(* item.get('hours') or {} of the n-th source item *)
RawHours(n) == PyOr(Get(SourceItem(n), "hours"), EmptyDict)

(* null, a string, or a sequence of strings *)
ClosedValue(x) ==
    x = Null \/ IsStr(x) \/ (IsList(x) /\ \A n \in 1..Len(x.v) : IsStr(x.v[n]))

(* C1: for every item the loop has processed, whatever the shape of its raw
   hours, the hours handed to the template is a mapping whose keys are exactly
   the seven days and whose values are null, a string or a sequence of
   strings. *)
C1_HoursSevenDays ==
    \A n \in 1..idx :
        /\ IsDict(Get(PageOf(n).item, "hours"))
        /\ DOMAIN Get(PageOf(n).item, "hours").v = DaySet
        /\ \A d \in DaySet : ClosedValue(Get(PageOf(n).item, "hours").v[d])

(* The wildcard key that covers day d *)
WildcardOf(d) == IF d \in Weekdays THEN "weekdays" ELSE "weekends"

(* C2: for every raw hours mapping and every day d, the day's value comes from
   raw[d] when d is a key (even when raw[d] is null and a wildcard exists),
   otherwise from the matching weekdays/weekends key when present, otherwise
   from everyday when present, otherwise the day is null. *)
C2_HoursPrecedence ==
    \A n \in 1..idx : IsDict(RawHours(n)) =>
        \A d \in DaySet :
            \E raw \in {RawHours(n).v}, res \in {Get(PageOf(n).item, "hours").v[d]} :
                /\ d \in DOMAIN raw => res = EffectiveDay(raw[d])
                /\ d \notin DOMAIN raw /\ WildcardOf(d) \in DOMAIN raw
                       => res = EffectiveDay(raw[WildcardOf(d)])
                /\ d \notin DOMAIN raw /\ WildcardOf(d) \notin DOMAIN raw /\ "everyday" \in DOMAIN raw
                       => res = EffectiveDay(raw["everyday"])
                /\ {d, WildcardOf(d), "everyday"} \cap DOMAIN raw = {} => res = Null

(* C2 witness: {weekdays: "9am-5pm", saturday: null} was expanded to Monday to
   Friday "9am-5pm", Saturday null, Sunday null. *)
C2_Witness ==
    /\ idx = 1
    /\ RawHours(1) = Dict([weekdays |-> Str(s_9_5), saturday |-> Null])
    /\ \A d \in Weekdays : Get(PageOf(1).item, "hours").v[d] = Str(s_9_5)
    /\ Get(PageOf(1).item, "hours").v["saturday"] = Null
    /\ Get(PageOf(1).item, "hours").v["sunday"] = Null

(* A string that, trimmed and lower-cased, is an always-open spelling *)
SaysAlwaysOpen(x) == IsStr(x) /\ Lower(Strip(x.v)) \in AlwaysOpen

(* C3: a day whose selected value is a string gets "Open 24/7" when the string,
   trimmed and lower-cased, is an always-open spelling, and the string
   unchanged otherwise; a day whose selected value is a sequence gets the
   single string "Open 24/7" when any entry is such a spelling, and otherwise
   the sequence of its interval strings in input order. *)
C3_IntervalNormalization ==
    \A n \in 1..idx : IsDict(RawHours(n)) =>
        \A d \in DaySet :
            \E val \in {SelectDay(RawHours(n), d)}, res \in {Get(PageOf(n).item, "hours").v[d]} :
                /\ IsStr(val) => res = IF SaysAlwaysOpen(val) THEN Str(Open247) ELSE val
                /\ IsList(val) =>
                       IF \E k \in 1..Len(val.v) : SaysAlwaysOpen(val.v[k])
                       THEN res = Str(Open247)
                       ELSE res = List(SelectSeq(val.v, LAMBDA x : x # Null))

(* C3 witness: ["9am-12pm", "24/7"] on Monday collapsed to "Open 24/7", and
   the other weekdays kept the "9am-5pm" string. *)
C3_Witness ==
    /\ idx = 1
    /\ IsDict(RawHours(1))
    /\ HasKey(RawHours(1), "monday")
    /\ Get(RawHours(1), "monday") = List(<<Str(s_9_12), Str(s_24_7)>>)
    /\ Get(PageOf(1).item, "hours").v["monday"] = Str(Open247)
    /\ Get(PageOf(1).item, "hours").v["tuesday"] = Str(s_9_5)

(* C3 witness for a padded, mixed-case spelling: {everyday: " 24 Hours "} gave
   "Open 24/7" on all seven days. *)
C3_WitnessEveryday ==
    /\ idx = 1
    /\ RawHours(1) = Dict([everyday |-> Str(s_24_hours_padded)])
    /\ \A d \in DaySet : Get(PageOf(1).item, "hours").v[d] = Str(Open247)

(* The homepage was written: it is the last file, after the index *)
HomepageWritten == pc = "done" /\ env.homepage.state = "ok"

(* The inputs the skeleton template got for the homepage *)
HomepageOut == out[Len(out)].page

(* A non-empty string *)
HasText(x) == IsStr(x) /\ Len(x.v) > 0

(* The banner value the claim selects: the local path when non-empty, else
   the remote URL *)
ChosenBanner(rec) ==
    IF HasText(Get(rec, "local_banner_path")) THEN Get(rec, "local_banner_path")
    ELSE Get(rec, "remote_banner_url")

(* markup is banner markup whose image source is src *)
RefersTo(markup, src) == markup.t = "html" /\ markup.v.src = src

(* markup is the placeholder markup captioned "No banner available" *)
IsBannerPlaceholder(markup) ==
    /\ markup.t = "html"
    /\ markup.v.src.t = "datauri"
    /\ markup.v.src.v.text = s_no_banner

(* The banner rule of C5 for one record, its prefix and the placeholder switch *)
BannerAsClaimed(rec, banner_html, prefix, placeholders) ==
    \E chosen \in {ChosenBanner(rec)} :
        /\ HasText(chosen) /\ LooksRemote(chosen.v) => RefersTo(banner_html, chosen)
        /\ HasText(chosen) /\ ~LooksRemote(chosen.v) /\ chosen.v \in env.media
               => RefersTo(banner_html, Str(prefix \o chosen.v))
        /\ ~HasText(chosen) \/ (~LooksRemote(chosen.v) /\ chosen.v \notin env.media)
               => IF placeholders THEN IsBannerPlaceholder(banner_html)
                  ELSE banner_html = EmptyStr

(* C5: for every item page (placeholders enabled, the page's media prefix) and
   for the homepage (placeholder_if_missing=False, empty prefix): a non-empty
   local_banner_path is preferred over remote_banner_url; a value starting
   with http or // is referenced with no prefix; an existing local file is
   referenced as prefix + path; a missing local file or no value gives the
   placeholder captioned "No banner available", or the empty string when
   placeholders are off. *)
C5_BannerResolution ==
    /\ \A n \in 1..idx :
           BannerAsClaimed(SourceItem(n), PageOf(n).banner_html, PageOf(n).media_prefix.v, TRUE)
    /\ HomepageWritten =>
           BannerAsClaimed(env.homepage.value, HomepageOut.banner_html, <<>>, FALSE)

(* C5 witness: an item with both banner fields got "../" + its local path,
   and a homepage whose local banner file is missing got the empty string. *)
C5_Witness ==
    /\ HomepageWritten
    /\ Get(SourceItem(1), "local_banner_path") = Str(s_media_a)
    /\ Get(SourceItem(1), "remote_banner_url") = Str(s_remote_http)
    /\ RefersTo(PageOf(1).banner_html, Str(<<".",".","/">> \o s_media_a))
    /\ Get(env.homepage.value, "local_banner_path") = Str(s_media_missing)
    /\ HomepageOut.banner_html = EmptyStr

(* C5 witness for the placeholder: an item whose only banner value is a local
   path that does not exist got the placeholder markup. *)
C5_WitnessPlaceholder ==
    /\ idx = 1
    /\ Get(SourceItem(1), "local_banner_path") = Str(s_media_missing)
    /\ IsBannerPlaceholder(PageOf(1).banner_html)

(* A logo reference that is empty, remote, or a local file that exists *)
SoundReference(x) ==
    IsStr(x) /\ (x.v = <<>> \/ LooksRemote(x.v) \/ x.v \in env.media)

(* Banner markup that is empty, the placeholder, remote, or prefix + a local
   file that exists *)
SoundBanner(b, prefix) ==
    \/ b = EmptyStr
    \/ IsBannerPlaceholder(b)
    \/ /\ b.t = "html"
       /\ IsStr(b.v.src)
       /\ \/ LooksRemote(b.v.src.v)
          \/ \E f \in env.media : b.v.src.v = prefix \o f

(* The loop stopped on an item whose banner or logo resolution raised *)
ImageFaultInLoop ==
    /\ pc = "crashed"
    /\ IsDict(data) /\ idx < Len(data.v)
    /\ IsDict(SourceItem(idx + 1))
    /\ \/ Raised(build_banner_html(SourceItem(idx + 1), <<>>, TRUE))
       \/ Raised(ItemLogo(SourceItem(idx + 1)))

(* C6: resolving the banner and the logo of an item or of the homepage never
   raises, whatever the field values, and yields a remote reference, a local
   reference whose file exists, the placeholder, or the empty string. *)
C6_ImagesNeverRaiseNorDangle ==
    /\ ~ImageFaultInLoop
    /\ \A n \in 1..idx :
           SoundReference(PageOf(n).logo_url) /\ SoundBanner(PageOf(n).banner_html, PageOf(n).media_prefix.v)
    /\ pc = "crashed" /\ IsDict(data) /\ idx = Len(data.v) /\ Len(out) > idx
           => ~Raised(build_banner_html(env.homepage.value, <<>>, FALSE))
    /\ HomepageWritten =>
           SoundReference(HomepageOut.logo_url) /\ SoundBanner(HomepageOut.banner_html, <<>>)

(* C6, the second half alone: every logo and banner reference on a written
   page is empty, the placeholder, remote, or a local file that exists. *)
C6_NoDanglingReference ==
    /\ \A n \in 1..idx :
           SoundReference(PageOf(n).logo_url) /\ SoundBanner(PageOf(n).banner_html, PageOf(n).media_prefix.v)
    /\ HomepageWritten =>
           SoundReference(HomepageOut.logo_url) /\ SoundBanner(HomepageOut.banner_html, <<>>)

(* C7: the card of each item is {name, description, slug, logo} with name
   "Unnamed" when the item has none, description "" when it has none, slug
   the item's slug or its source key, and logo the resolved logo reference of
   the item page (empty when the local logo file does not exist). *)
C7_CardFromResolvedLogo ==
    \A n \in 1..Len(cards) :
        /\ cards[n].name = IF HasKey(SourceItem(n), "name") THEN Get(SourceItem(n), "name")
                           ELSE Str(s_unnamed)
        /\ cards[n].description = IF HasKey(SourceItem(n), "description")
                                  THEN Get(SourceItem(n), "description") ELSE EmptyStr
        /\ cards[n].slug = IF HasText(Get(SourceItem(n), "slug")) THEN Get(SourceItem(n), "slug")
                           ELSE Str(data.v[n][1])
        /\ cards[n].logo = PageOf(n).logo_url

(* The one item of C10: a local logo whose file exists, and no banner fields,
   hours, payment methods or tags *)
C10_Case ==
    /\ idx = 1 /\ Len(data.v) = 1
    /\ HasText(Get(SourceItem(1), "local_logo_path"))
    /\ ~LooksRemote(Get(SourceItem(1), "local_logo_path").v)
    /\ Get(SourceItem(1), "local_logo_path").v \in env.media
    /\ {"local_banner_path", "remote_banner_url", "hours", "payment_methods", "tags"}
           \cap DOMAIN SourceItem(1).v = {}

(* The inputs of C10 other than the logo: placeholder banner, seven null
   days, empty payment methods, empty tags *)
C10_Rest ==
    /\ IsBannerPlaceholder(PageOf(1).banner_html)
    /\ Get(PageOf(1).item, "hours") = Dict([d \in DaySet |-> Null])
    /\ Get(PageOf(1).item, "payment_methods") = EmptyDict
    /\ Get(PageOf(1).item, "tags") = List(<<>>)

(* C10 as stated: the logo handed to the item template is the media prefix
   concatenated with the local logo path. *)
C10_LogoPrefixed ==
    C10_Case =>
        /\ PageOf(1).logo_url = Str(PageOf(1).media_prefix.v \o Get(SourceItem(1), "local_logo_path").v)
        /\ C10_Rest

(* C10 amended: the logo handed to the item template is the local logo path
   as written in the record; the media prefix "../" is handed to the template
   as a separate input; banner, hours, payment methods and tags as stated. *)
C10_LogoUnprefixed ==
    C10_Case =>
        /\ PageOf(1).logo_url = Get(SourceItem(1), "local_logo_path")
        /\ PageOf(1).media_prefix = Str(<<".",".","/">>)
        /\ C10_Rest

(* C10 witness: the page of such an item was written. *)
C10_Witness ==
    /\ C10_Case
    /\ Get(SourceItem(1), "local_logo_path") = Str(s_media_a)
    /\ Len(out) >= 1 /\ out[1].page.template = "restaurant"

(* The loop was entered: the restaurants source parsed to a non-empty mapping *)
LoopEntered == IsDict(data) /\ Truthy(data)

(* The run has ended *)
Ended == pc \in {"done", "exit1", "crashed"}

(* The slug of the n-th item *)
SlugAt(n) == SlugOf(Str(data.v[n][1]), SourceItem(n))

(* Processing the n-th item on its own raises nothing *)
Faultless(n) ==
    ~Raised(ProcessItem(Str(data.v[n][1]), SourceItem(n), reviews_map, TRUE, dirs))

(* C4: a fault raised while processing one item does not abort the run: when
   the run has ended, every item that is itself faultless has its page
   written and its card in the index, and the index page is written. *)
C4_ItemFaultDoesNotAbort ==
    Ended /\ LoopEntered /\ env.skeleton_ok /\ env.restaurant_ok =>
        /\ \A n \in 1..Len(data.v) : Faultless(n) =>
               /\ \E w \in 1..Len(out) : out[w].file = ItemFile(SlugAt(n))
               /\ \E c \in 1..Len(cards) : cards[c].slug = SlugAt(n)
        /\ \E w \in 1..Len(out) : out[w].file = PathJoin(rest_out, s_index_html)

(* The list stored for the n-th item: under its slug, or under its source
   key when nothing is stored under the slug *)
StoredReviews(n) ==
    IF IsStr(SlugAt(n)) /\ HasKey(reviews_map, SlugAt(n).v) /\ Truthy(reviews_map.v[SlugAt(n).v])
    THEN reviews_map.v[SlugAt(n).v]
    ELSE IF HasKey(reviews_map, data.v[n][1]) THEN reviews_map.v[data.v[n][1]]
    ELSE List(<<>>)

(* The stored list is a list of review records *)
StoredIsRecords(n) ==
    /\ IsDict(reviews_map)
    /\ IsList(StoredReviews(n))
    /\ \A k \in 1..Len(StoredReviews(n).v) : IsDict(StoredReviews(n).v[k])

(* A review without its derived fields *)
AsStored(r) == Dict([k \in DOMAIN r.v \ {"date_parsed", "date_epoch_ms"} |-> r.v[k]])

(* How many entries of seq equal x *)
Count(seq, x) == Cardinality({k \in 1..Len(seq) : seq[k] = x})

(* The review's date is a string that parses *)
Parseable(r) ==
    IsStr(Get(r, "date")) /\ Truthy(Get(r, "date")) /\ ~Raised(fromisoformat(Get(r, "date").v))

(* The instant of a parseable review in epoch seconds: its own offset when it
   has one, the local zone otherwise *)
InstantOf(r) == timestamp(fromisoformat(Get(r, "date").v).v)

(* C8: the reviews attached to an item are all the records stored for it,
   newest parsed date first, records whose date is absent or does not parse
   after every record whose date parses, whatever the form of the dates. *)
C8_ReviewsAllSortedDescending ==
    \A n \in 1..idx : StoredIsRecords(n) =>
        \E got \in {PageOf(n).reviews.v}, stored \in {StoredReviews(n).v} :
            /\ Len(got) = Len(stored)
            /\ \A k \in 1..Len(stored) :
                   Count([j \in 1..Len(got) |-> AsStored(got[j])], stored[k]) = Count(stored, stored[k])
            /\ \A a, b \in 1..Len(got) : a < b =>
                   /\ Parseable(got[b]) => Parseable(got[a])
                   /\ Parseable(got[a]) /\ Parseable(got[b]) => InstantOf(got[a]) >= InstantOf(got[b])

(* C9: every attached review carries date_parsed and date_epoch_ms: the
   parsed date and its epoch milliseconds when date parses, and both null
   when date does not parse, is absent, is empty or is not a string. *)
C9_ReviewsCarryDerivedFields ==
    \A n \in 1..idx :
        \A k \in 1..Len(PageOf(n).reviews.v) :
            \E r \in {PageOf(n).reviews.v[k]} :
                /\ HasKey(r, "date_parsed") /\ HasKey(r, "date_epoch_ms")
                /\ IF Parseable(r)
                   THEN /\ r.v["date_parsed"] = fromisoformat(Get(r, "date").v)
                        /\ r.v["date_epoch_ms"] = Thousands(InstantOf(r))
                   ELSE r.v["date_parsed"] = Null /\ r.v["date_epoch_ms"] = Null

(* The files written so far, in the order of the writes *)
FilesWritten == {out[w].file : w \in 1..Len(out)}

(* What file holds now: the page of the last write to it *)
Holds(file) ==
    out[CHOOSE w \in 1..Len(out) :
            out[w].file = file /\ \A u \in (w + 1)..Len(out) : out[u].file # file].page

(* The run completed *)
Completed == pc = "done"

(* C11: after a run that completes, <out>/restaurants/<slug>.html holds the
   rendered page of each item, <out>/restaurants/index.html holds the index
   with one card per item in input order, <out>/index.html exists if and
   only if a homepage source was supplied, and no write of the run went to a
   file an earlier write of the same run had written, whatever the slugs. *)
C11_OutputTree ==
    Completed =>
        /\ \A n \in 1..Len(data.v) :
               /\ ItemFile(SlugAt(n)) \in FilesWritten
               /\ Holds(ItemFile(SlugAt(n))) = PageOf(n)
        /\ PathJoin(rest_out, s_index_html) \in FilesWritten
        /\ Holds(PathJoin(rest_out, s_index_html)) = IndexPage(cards)
        /\ Len(cards) = Len(data.v)
        /\ \A n \in 1..Len(data.v) : cards[n].slug = SlugAt(n)
        /\ PathJoin(outdir, s_index_html) \in FilesWritten <=> env.homepage.state # "missing"
        /\ \A a, b \in 1..Len(out) : a < b => out[a].file # out[b].file

(* The restaurants source is missing, does not parse, or parses to something
   other than a non-empty mapping *)
RestaurantsRejected ==
    \/ env.restaurants.state \in {"missing", "malformed"}
    \/ ~IsDict(env.restaurants.value)
    \/ ~Truthy(env.restaurants.value)

(* The directory d is the output root or lies under it *)
UnderOutputRoot(d) ==
    Len(d) >= Len(AbsPath(outdir)) /\ SubSeq(d, 1, Len(AbsPath(outdir))) = AbsPath(outdir)

(* The exit status of an ended run: 0 when main() returns, 1 on
   SystemExit(1) and on an exception that leaves main() *)
ExitStatus == IF pc = "done" THEN 0 ELSE 1

(* C12: when the restaurants source is missing, does not parse, or parses to
   something other than a non-empty mapping, the run ends with exit status 1
   and nothing has been created or written under the output root: no page
   and no output directory. *)
C12_FatalLeavesNothing ==
    Ended /\ RestaurantsRejected =>
        /\ ExitStatus = 1
        /\ out = <<>>
        /\ \A d \in dirs : ~UnderOutputRoot(d)

(* C12, without the output directory: the run ends with exit status 1 and no
   page has been written. *)
C12_FatalWritesNoPage ==
    Ended /\ RestaurantsRejected => ExitStatus = 1 /\ out = <<>>

(* A field value that is neither absent (null) nor empty *)
NonEmpty(x) == x # Null /\ x # EmptyStr

(* The URL built from a website_slug with the fixed template *)
LocationUrl(ws) == Str(s_rit_location \o ws.v)

(* C13: for every item the official URL handed to the template is the first
   non-empty of website_url, website and
   https://www.rit.edu/dining/location/<website_slug>, and null when all
   three are empty or absent. *)
C13_OfficialUrlPrecedence ==
    \A n \in 1..idx :
        \E wu \in {Get(SourceItem(n), "website_url")},
           w \in {Get(SourceItem(n), "website")},
           ws \in {Get(SourceItem(n), "website_slug")} :
            PageOf(n).official_url =
                IF NonEmpty(wu) THEN wu
                ELSE IF NonEmpty(w) THEN w
                ELSE IF NonEmpty(ws) THEN LocationUrl(ws)
                ELSE Null

(* C13 witness: an item with all three fields got its website_url. *)
C13_Witness ==
    /\ idx = 1
    /\ Get(SourceItem(1), "website_url") = Str(s_site_a)
    /\ Get(SourceItem(1), "website") = Str(s_site_b)
    /\ Get(SourceItem(1), "website_slug") = Str(s_location)
    /\ PageOf(1).official_url = Str(s_site_a)

(* C13 witness for the constructed URL: an item with an empty website_url, no
   website and a website_slug got the template URL. *)
C13_WitnessSlug ==
    /\ idx = 1
    /\ Get(SourceItem(1), "website_url") = EmptyStr
    /\ ~HasKey(SourceItem(1), "website")
    /\ Get(SourceItem(1), "website_slug") = Str(s_location)
    /\ PageOf(1).official_url = Str(s_rit_location \o s_location)

(* C13 witness for the absent URL: an item whose three fields are empty or
   absent got null. *)
C13_WitnessNone ==
    /\ idx = 1
    /\ Get(SourceItem(1), "website_url") = EmptyStr
    /\ Get(SourceItem(1), "website") = EmptyStr
    /\ ~HasKey(SourceItem(1), "website_slug")
    /\ PageOf(1).official_url = Null

(* The payment rule of C14: a sequence gives the mapping from each element's
   string form to true, a mapping is unchanged, anything else gives {} *)
PaymentAsClaimed(pm, got) ==
    IF IsList(pm)
    THEN /\ IsDict(got)
         /\ DOMAIN got.v = {PyStr(pm.v[k]) : k \in 1..Len(pm.v)}
         /\ \A key \in DOMAIN got.v : got.v[key] = Bool(TRUE)
    ELSE IF IsDict(pm) THEN got = pm
    ELSE got = EmptyDict

(* The segments of s between commas, trimmed, without the empty ones *)
TrimmedSegments(s) ==
    SelectSeq([k \in 1..Len(SplitOn(s, ",", <<>>)) |-> Strip(SplitOn(s, ",", <<>>)[k])],
              LAMBDA seg : seg # <<>>)

(* The tags rule of C14: a string gives its trimmed non-empty segments in
   order, a sequence is unchanged, anything else gives [] *)
TagsAsClaimed(tags, got) ==
    IF IsStr(tags)
    THEN /\ IsList(got)
         /\ Len(got.v) = Len(TrimmedSegments(tags.v))
         /\ \A k \in 1..Len(got.v) :
                /\ got.v[k] = Str(TrimmedSegments(tags.v)[k])
                /\ got.v[k].v # <<>>
                /\ \A c \in 1..Len(got.v[k].v) : got.v[k].v[c] # ","
                /\ got.v[k].v[1] \notin Whitespace
                /\ got.v[k].v[Len(got.v[k].v)] \notin Whitespace
    ELSE IF IsList(tags) THEN got = tags
    ELSE got = List(<<>>)

(* C14: after processing, every item's payment_methods is a mapping (a
   sequence becomes the mapping from each element's string form to true, a
   mapping is unchanged, anything else becomes {}) and its tags is a sequence
   (a string is split on commas, trimmed, empty segments dropped, order kept;
   a sequence is unchanged; anything else becomes []). *)
C14_PaymentAndTagsNormalized ==
    \A n \in 1..idx :
        /\ HasKey(PageOf(n).item, "payment_methods")
        /\ HasKey(PageOf(n).item, "tags")
        /\ IsDict(Get(PageOf(n).item, "payment_methods"))
        /\ IsList(Get(PageOf(n).item, "tags"))
        /\ PaymentAsClaimed(Get(SourceItem(n), "payment_methods"),
                            Get(PageOf(n).item, "payment_methods"))
        /\ TagsAsClaimed(Get(SourceItem(n), "tags"), Get(PageOf(n).item, "tags"))

(* C14 witness: ["cash","card"] gave {cash: true, card: true} and "a, b ,c"
   gave ["a","b","c"]. *)
C14_Witness ==
    /\ idx = 1
    /\ Get(SourceItem(1), "payment_methods") = List(<<Str(s_cash), Str(s_card)>>)
    /\ Get(SourceItem(1), "tags") = Str(s_a_b_c)
    /\ Get(PageOf(1).item, "payment_methods").v = (s_cash :> Bool(TRUE)) @@ (s_card :> Bool(TRUE))
    /\ Get(PageOf(1).item, "tags") = List(<<Str(<<"a">>), Str(<<"b">>), Str(<<"c">>)>>)

(* C14 witness for the other shapes: absent tags gave [], and a
   payment_methods that is neither a sequence nor a mapping gave {}. *)
C14_WitnessDefaults ==
    /\ idx = 1
    /\ ~HasKey(SourceItem(1), "tags")
    /\ Get(SourceItem(1), "payment_methods") = Num(5)
    /\ Get(PageOf(1).item, "tags") = List(<<>>)
    /\ Get(PageOf(1).item, "payment_methods") = EmptyDict

(* C14 witness for the dropped segments: " , a,,b c, " gave ["a","b c"]. *)
C14_WitnessGaps ==
    /\ idx = 1
    /\ Get(SourceItem(1), "tags") = Str(s_tags_gaps)
    /\ Get(PageOf(1).item, "tags") = List(<<Str(<<"a">>), Str(<<"b"," ","c">>)>>)

====
